---- MODULE Spec2Model ----
(***************************************************************************)
(* Two-player Hanabi environment (hanabi_env.rs) with its determinization   *)
(* sampler, and the rollout loop that drives it (main.rs).                  *)
(*                                                                          *)
(* Cards are ids 0..24 (color * 5 + suit), 26 is the empty-slot sentinel.   *)
(* Hints are two 6-bit masks.  u8 arithmetic wraps modulo 256, so that an   *)
(* underflow of a token or of a count shows as a value out of range.        *)
(***************************************************************************)
EXTENDS Integers, Sequences, FiniteSets, TLC

\* ------------------------------------------------------------------ bounds

\* Number of steps explored off the reference lines of play (see Next).
MaxFree == 1

\* The largest num_rollouts the policy is called with.
MaxRollouts == 3

\* Number of actions of the env the rollouts of a policy call start with.
MaxPolicyActions == 3

\* Number of turns of the evaluation loop the policy is followed for.
MaxPolicyTurns == 1

\* ----------------------------------------------------- program constants

NumColors == 5
NumSuits == 5
HandSize == 5
NumIds == 25
NoneId == 26
MaxBlue == 8
StartBlack == 4
NoneMask == 32
EmptyMask == 31
DeckSize == 50

Colors == 0 .. (NumColors - 1)
Suits == 0 .. (NumSuits - 1)
Slots == 0 .. (HandSize - 1)
Ids == 0 .. (NumIds - 1)

\* u8 arithmetic of a release build: wrap-around.
U8(x) == x % 256

\* ------------------------------------------------------------------- Card

parts_id(color, suit) == color * 5 + suit

card_none == NoneId

card_is_none(card) == card = NoneId

card_is_some(card) == ~card_is_none(card)

color_id(card) == card \div 5

suit_id(card) == card % 5

\* ------------------------------------------------------------------- Hint

Pow2(b) == 2 ^ b

BitSet(mask, b) == (mask \div Pow2(b)) % 2 = 1

hint_empty == [color |-> EmptyMask, suit |-> EmptyMask]

hint_none == [color |-> NoneMask, suit |-> NoneMask]

hint_is_none(h) == h.color = NoneMask \/ h.suit = NoneMask

hint_is_some(h) == ~hint_is_none(h)

\* Mutant of set_true_color: the bit is set and the other bits are kept.
set_true_color_keeps(h, color) ==
    [h EXCEPT !.color = IF BitSet(h.color, color) THEN h.color ELSE h.color + Pow2(color)]

set_true_color(h, color) == [h EXCEPT !.color = Pow2(color)]

\* Mutant of disable_color: the bit is flipped instead of cleared.
disable_color_flip(h, color) ==
    [h EXCEPT !.color = IF BitSet(h.color, color) THEN h.color - Pow2(color)
                        ELSE h.color + Pow2(color)]

disable_color(h, color) ==
    [h EXCEPT !.color = IF BitSet(h.color, color) THEN h.color - Pow2(color) ELSE h.color]

set_true_suit(h, suit) == [h EXCEPT !.suit = Pow2(suit)]

disable_suit(h, suit) ==
    [h EXCEPT !.suit = IF BitSet(h.suit, suit) THEN h.suit - Pow2(suit) ELSE h.suit]

matches_color(h, color) == BitSet(h.color, color)

matches_suit(h, suit) == BitSet(h.suit, suit)

hint_matches_card(h, card) ==
    matches_color(h, color_id(card)) /\ matches_suit(h, suit_id(card))

\* -------------------------------------------------------------- Fireworks

fireworks_empty == [c \in Colors |-> 0]

RECURSIVE SumTo(_, _)
SumTo(f, n) == IF n < 0 THEN 0 ELSE f[n] + SumTo(f, n - 1)

fireworks_total(fw) == U8(SumTo(fw, NumColors - 1))

accepts(fw, card) == fw[color_id(card)] = suit_id(card)

add_card(fw, card) == [fw EXCEPT ![color_id(card)] = suit_id(card) + 1]

is_color_complete(fw, color) == fw[color] = 5

\* --------------------------------------------------------- CardCollection

SuitCopies == <<3, 2, 2, 2, 1>>

collection_empty == [total |-> 0, counts |-> [i \in Ids |-> 0]]

starting_deck == [total |-> DeckSize, counts |-> [i \in Ids |-> SuitCopies[suit_id(i) + 1]]]

\* Mutant of add: the count grows and the cached total is left as it was.
coll_add_stale_total(coll, card) ==
    [total |-> coll.total,
     counts |-> [coll.counts EXCEPT ![card] = U8(@ + 1)]]

coll_add(coll, card) ==
    [total |-> U8(coll.total + 1),
     counts |-> [coll.counts EXCEPT ![card] = U8(@ + 1)]]

coll_remove(coll, card) ==
    [total |-> U8(coll.total - 1),
     counts |-> [coll.counts EXCEPT ![card] = U8(@ - 1)]]

RECURSIVE RemoveHandFrom(_, _, _)
RemoveHandFrom(coll, hand, i) ==
    IF i = HandSize THEN coll
    ELSE RemoveHandFrom(IF card_is_some(hand[i]) THEN coll_remove(coll, hand[i]) ELSE coll,
                        hand, i + 1)

remove_hand(coll, hand) == RemoveHandFrom(coll, hand, 0)

\* The cards remove_fireworks takes out: one of every rank below the stack's height.
FireworkCopies(fw, id) == IF suit_id(id) < fw[color_id(id)] THEN 1 ELSE 0

\* Mutant of remove_fireworks: only the top card of every stack is taken out.
remove_fireworks_top(coll, fw) ==
    LET top(id) == IF suit_id(id) + 1 = fw[color_id(id)] THEN 1 ELSE 0
    IN [total |-> U8(coll.total - SumTo([c \in Colors |-> IF fw[c] > 0 THEN 1 ELSE 0],
                                         NumColors - 1)),
        counts |-> [i \in Ids |-> U8(coll.counts[i] - top(i))]]

remove_fireworks(coll, fw) ==
    [total |-> U8(coll.total - SumTo(fw, NumColors - 1)),
     counts |-> [i \in Ids |-> U8(coll.counts[i] - FireworkCopies(fw, i))]]

subtract(coll, other) ==
    [total |-> U8(coll.total - other.total),
     counts |-> [i \in Ids |-> U8(coll.counts[i] - other.counts[i])]]

\* Mutant of the walk of pop: the comparison with the running total is <=.
RECURSIVE PopWalk_inclusive(_, _, _, _)
PopWalk_inclusive(counts, k, i, acc) ==
    IF i = NumIds THEN NoneId
    ELSE IF k <= acc + counts[i] THEN i
    ELSE PopWalk_inclusive(counts, k, i + 1, acc + counts[i])

\* Mutant of the walk of pop: the loop stops one identity short.
RECURSIVE PopWalk_short(_, _, _, _)
PopWalk_short(counts, k, i, acc) ==
    IF i = NumIds - 1 THEN NoneId
    ELSE IF k < acc + counts[i] THEN i
    ELSE PopWalk_short(counts, k, i + 1, acc + counts[i])

\* The identity the cumulative walk of pop stops at for card_index k, from identity i
\* with running total acc; NoneId when the walk runs off the end.
RECURSIVE PopWalk(_, _, _, _)
PopWalk(counts, k, i, acc) ==
    IF i = NumIds THEN NoneId
    ELSE IF k < acc + counts[i] THEN i
    ELSE PopWalk(counts, k, i + 1, acc + counts[i])

\* pop with the generator's draw k in [0, total): the card and the collection left.
pop(coll, k) ==
    LET id == IF coll.total > 0 THEN PopWalk(coll.counts, k, 0, 0) ELSE NoneId
    IN IF id = NoneId THEN [card |-> card_none, coll |-> coll]
       ELSE [card |-> id, coll |-> coll_remove(coll, id)]

\* Mutant of the filter of pop_match: only the color mask is looked at.
restrict_color_only(coll, hint) ==
    LET dropped(i) == coll.counts[i] > 0 /\ ~matches_color(hint, color_id(i))
        counts == [i \in Ids |-> IF dropped(i) THEN 0 ELSE coll.counts[i]]
    IN [total |-> U8(coll.total - SumTo([i \in Ids |-> IF dropped(i) THEN coll.counts[i] ELSE 0],
                                         NumIds - 1)),
        counts |-> counts]

\* The hint-restricted copy pop_match draws from.
restrict(coll, hint) ==
    LET dropped(i) == coll.counts[i] > 0 /\ ~hint_matches_card(hint, i)
        counts == [i \in Ids |-> IF dropped(i) THEN 0 ELSE coll.counts[i]]
    IN [total |-> U8(coll.total - SumTo([i \in Ids |-> IF dropped(i) THEN coll.counts[i] ELSE 0],
                                         NumIds - 1)),
        counts |-> counts]

\* Mutant of pop_match: the weight counts the copies left after the draw.
pop_match_copies_left(coll, hint, k) ==
    LET matches == restrict(coll, hint)
        p == pop(matches, k)
    IN IF card_is_some(p.card)
       THEN [some |-> TRUE, card |-> p.card,
             num |-> p.coll.counts[p.card], den |-> p.coll.total + 1,
             coll |-> coll_remove(coll, p.card)]
       ELSE [some |-> FALSE, card |-> card_none, num |-> 0, den |-> 1, coll |-> coll]

\* Mutant of pop_match: the drawn card stays in the collection.
pop_match_keeps_card(coll, hint, k) ==
    LET matches == restrict(coll, hint)
        p == pop(matches, k)
    IN IF card_is_some(p.card)
       THEN [some |-> TRUE, card |-> p.card,
             num |-> p.coll.counts[p.card] + 1, den |-> p.coll.total + 1,
             coll |-> coll]
       ELSE [some |-> FALSE, card |-> card_none, num |-> 0, den |-> 1, coll |-> coll]

\* pop_match with the generator's draw k: none, or the card, the weight as a
\* fraction num/den, and the collection left.
pop_match(coll, hint, k) ==
    LET matches == restrict(coll, hint)
        p == pop(matches, k)
    IN IF card_is_some(p.card)
       THEN [some |-> TRUE, card |-> p.card,
             num |-> p.coll.counts[p.card] + 1, den |-> p.coll.total + 1,
             coll |-> coll_remove(coll, p.card)]
       ELSE [some |-> FALSE, card |-> card_none, num |-> 0, den |-> 1, coll |-> coll]

\* ----------------------------------------------------------------- Action

ColorHint(color) == [type |-> "ColorHint", color |-> color]

SuitHint(suit) == [type |-> "SuitHint", suit |-> suit]

Discard(hint) == [type |-> "Discard", hint |-> hint]

Play(hint) == [type |-> "Play", hint |-> hint]

\* Whether a Vec holds x (iter().position(..) is Some).
Holds(seq, x) == \E n \in 1 .. Len(seq) : seq[n] = x

\* -------------------------------------------------------------- HanabiEnv

\* Mutant of discard_at: the card leaves the hand and never reaches the discard.
discard_at_lost(e, i) ==
    [e EXCEPT !.player_hand[i] = card_none,
              !.player_hints[i] = hint_none]

discard_at(e, i) ==
    [e EXCEPT !.discard = coll_add(e.discard, e.player_hand[i]),
              !.player_hand[i] = card_none,
              !.player_hints[i] = hint_none]

\* Mutant of draw_into: a slot left without a card keeps the empty hint.
draw_into_keeps_hint(e, i, k) ==
    LET p == pop(e.deck, k)
    IN IF card_is_some(p.card)
       THEN [e EXCEPT !.deck = p.coll,
                      !.player_hand[i] = p.card,
                      !.player_hints[i] = hint_empty]
       ELSE [e EXCEPT !.deck = p.coll,
                      !.player_hand[i] = p.card,
                      !.last_round = TRUE,
                      !.player_hints[i] = hint_empty]

\* Mutant of draw_into: the hint of the slot is not reset for the card drawn.
draw_into_stale_hint(e, i, k) ==
    LET p == pop(e.deck, k)
    IN IF card_is_some(p.card)
       THEN [e EXCEPT !.deck = p.coll,
                      !.player_hand[i] = p.card]
       ELSE [e EXCEPT !.deck = p.coll,
                      !.player_hand[i] = p.card,
                      !.last_round = TRUE,
                      !.player_hints[i] = hint_none]

\* draw_into with the generator's draw k.
draw_into(e, i, k) ==
    LET p == pop(e.deck, k)
    IN IF card_is_some(p.card)
       THEN [e EXCEPT !.deck = p.coll,
                      !.player_hand[i] = p.card,
                      !.player_hints[i] = hint_empty]
       ELSE [e EXCEPT !.deck = p.coll,
                      !.player_hand[i] = p.card,
                      !.last_round = TRUE,
                      !.player_hints[i] = hint_none]

\* Mutant of hint_matches: every slot that holds a card is returned.
hint_matches_any(hints, hint) == {i \in Slots : hint_is_some(hints[i])}

\* The slots hint_matches returns: those whose hint equals the given one.
hint_matches(hints, hint) == {i \in Slots : hints[i] = hint}

\* ------------------------------------------------------------- PublicInfo

public_info(e) ==
    [player_hints |-> e.player_hints,
     opponent_hints |-> e.opponent_hints,
     discard |-> e.discard,
     blue_tokens |-> e.blue_tokens,
     black_tokens |-> e.black_tokens,
     fireworks |-> e.fireworks,
     last_round |-> e.last_round,
     last_round_turns_taken |-> e.last_round_turns_taken]

\* Mutant of private_info: the two perspectives are mixed up.
private_info_flipped(e, player_perspective) ==
    [opponent_hand |-> IF player_perspective THEN e.player_hand ELSE e.opponent_hand]

private_info(e, player_perspective) ==
    [opponent_hand |-> IF player_perspective THEN e.opponent_hand ELSE e.player_hand]

NumSome(hints) == Cardinality({i \in Slots : hint_is_some(hints[i])})

\* Mutant of is_over: the final round never ends the game.
public_is_over_no_final_round(pub) ==
    \/ pub.black_tokens = 1
    \/ fireworks_total(pub.fireworks) = 25

public_is_over(pub) ==
    LET num_player_cards == NumSome(pub.player_hints)
        num_opponent_cards == NumSome(pub.opponent_hints)
        num_fireworks == fireworks_total(pub.fireworks)
    IN \/ pub.black_tokens = 1
       \/ num_fireworks = 25
       \/ /\ U8(pub.discard.total + num_player_cards + num_opponent_cards + num_fireworks) = 50
          /\ pub.last_round
          /\ pub.last_round_turns_taken = 2

is_over(e) == public_is_over(public_info(e))

\* Mutant of the inner loop of possible_future_rewards: a rank without a copy in
\* play is skipped and the count goes on.
RECURSIVE ColorFuture_no_break(_, _, _)
ColorFuture_no_break(cards_in_play, color, suit) ==
    IF suit >= NumSuits THEN 0
    ELSE (IF cards_in_play.counts[parts_id(color, suit)] = 0 THEN 0 ELSE 1)
         + ColorFuture_no_break(cards_in_play, color, suit + 1)

\* One color's share of possible_future_rewards: the ranks from suit upwards that
\* still have a copy in play, up to the first rank that has none.
RECURSIVE ColorFuture(_, _, _)
ColorFuture(cards_in_play, color, suit) ==
    IF suit >= NumSuits THEN 0
    ELSE IF cards_in_play.counts[parts_id(color, suit)] = 0 THEN 0
    ELSE 1 + ColorFuture(cards_in_play, color, suit + 1)

\* Mutant of possible_future_rewards: every color is counted from rank 1, whatever
\* has been played.
possible_future_rewards_all_ranks(fireworks, discard) ==
    LET cards_in_play == subtract(starting_deck, discard)
    IN U8(SumTo([color \in Colors |-> ColorFuture(cards_in_play, color, 0)],
                NumColors - 1))

possible_future_rewards(fireworks, discard) ==
    LET cards_in_play == subtract(starting_deck, discard)
    IN U8(SumTo([color \in Colors |-> ColorFuture(cards_in_play, color, fireworks[color])],
                NumColors - 1))

\* Mutant of PublicInfo::reward: the strikes left are not offset by one.
public_reward_no_offset(pub) ==
    [num |-> 3 * fireworks_total(pub.fireworks)
             + pub.black_tokens * possible_future_rewards(pub.fireworks, pub.discard),
     den |-> 3 * NumIds]

\* PublicInfo::reward, an f32 in the code, as the exact fraction num / den:
\* total / 25 + ((black_tokens - 1) / 3) * (future / 25).
public_reward(pub) ==
    [num |-> 3 * fireworks_total(pub.fireworks)
             + (pub.black_tokens - 1) * possible_future_rewards(pub.fireworks, pub.discard),
     den |-> 3 * NumIds]

reward(e) == public_reward(public_info(e))

\* ---------------------------------------------------------------- actions

\* Mutant of the play and discard loop: Discard is offered whatever blue_tokens is.
RECURSIVE PlayDiscardActions_any(_, _, _)
PlayDiscardActions_any(e, i, acc) ==
    IF i = HandSize THEN acc
    ELSE IF card_is_some(e.player_hand[i])
    THEN LET play == [type |-> "Play", hint |-> e.player_hints[i]]
             discard == [type |-> "Discard", hint |-> e.player_hints[i]]
             a1 == IF ~Holds(acc, play) THEN Append(acc, play) ELSE acc
             a2 == IF ~Holds(a1, discard) THEN Append(a1, discard) ELSE a1
         IN PlayDiscardActions_any(e, i + 1, a2)
    ELSE PlayDiscardActions_any(e, i + 1, acc)

RECURSIVE PlayDiscardActions(_, _, _)
PlayDiscardActions(e, i, acc) ==
    IF i = HandSize THEN acc
    ELSE IF card_is_some(e.player_hand[i])
    THEN LET play == Play(e.player_hints[i])
             discard == Discard(e.player_hints[i])
             a1 == IF ~Holds(acc, play) THEN Append(acc, play) ELSE acc
             a2 == IF e.blue_tokens < 8 /\ ~Holds(a1, discard) THEN Append(a1, discard) ELSE a1
         IN PlayDiscardActions(e, i + 1, a2)
    ELSE PlayDiscardActions(e, i + 1, acc)

RECURSIVE ColorHintActions(_, _, _)
ColorHintActions(e, color, acc) ==
    IF color = NumColors THEN acc
    ELSE LET num_of_color ==
                 Cardinality({i \in Slots : card_is_some(e.opponent_hand[i])
                                            /\ color_id(e.opponent_hand[i]) = color})
         IN ColorHintActions(e, color + 1,
                             IF num_of_color > 0 THEN Append(acc, ColorHint(color)) ELSE acc)

RECURSIVE SuitHintActions(_, _, _)
SuitHintActions(e, suit, acc) ==
    IF suit = NumSuits THEN acc
    ELSE LET num_in_suit ==
                 Cardinality({i \in Slots : card_is_some(e.opponent_hand[i])
                                            /\ suit_id(e.opponent_hand[i]) = suit})
         IN SuitHintActions(e, suit + 1,
                            IF num_in_suit > 0 THEN Append(acc, SuitHint(suit)) ELSE acc)

\* Mutant of actions: the hints are listed without a look at blue_tokens.
actions_hints_always(e) ==
    SuitHintActions(e, 0, ColorHintActions(e, 0, PlayDiscardActions(e, 0, <<>>)))

actions(e) ==
    LET pd == PlayDiscardActions(e, 0, <<>>)
    IN IF e.blue_tokens > 0
       THEN SuitHintActions(e, 0, ColorHintActions(e, 0, pd))
       ELSE pd

\* ------------------------------------------------------------------- step

\* Mutant of the ColorHint arm: the comparison of the card's color is inverted.
step_color_hint_inverted(e, color) ==
    [e EXCEPT !.opponent_hints =
                  [i \in Slots |->
                      IF card_is_some(e.opponent_hand[i])
                      THEN IF color_id(e.opponent_hand[i]) # color
                           THEN set_true_color(e.opponent_hints[i], color)
                           ELSE disable_color(e.opponent_hints[i], color)
                      ELSE e.opponent_hints[i]],
              !.blue_tokens = U8(e.blue_tokens - 1)]

step_color_hint(e, color) ==
    [e EXCEPT !.opponent_hints =
                  [i \in Slots |->
                      IF card_is_some(e.opponent_hand[i])
                      THEN IF color_id(e.opponent_hand[i]) = color
                           THEN set_true_color(e.opponent_hints[i], color)
                           ELSE disable_color(e.opponent_hints[i], color)
                      ELSE e.opponent_hints[i]],
              !.blue_tokens = U8(e.blue_tokens - 1)]

\* Mutant of the SuitHint arm: the hint costs no blue token.
step_suit_hint_free(e, suit) ==
    [e EXCEPT !.opponent_hints =
                  [i \in Slots |->
                      IF card_is_some(e.opponent_hand[i])
                      THEN IF suit_id(e.opponent_hand[i]) = suit
                           THEN set_true_suit(e.opponent_hints[i], suit)
                           ELSE disable_suit(e.opponent_hints[i], suit)
                      ELSE e.opponent_hints[i]]]

step_suit_hint(e, suit) ==
    [e EXCEPT !.opponent_hints =
                  [i \in Slots |->
                      IF card_is_some(e.opponent_hand[i])
                      THEN IF suit_id(e.opponent_hand[i]) = suit
                           THEN set_true_suit(e.opponent_hints[i], suit)
                           ELSE disable_suit(e.opponent_hints[i], suit)
                      ELSE e.opponent_hints[i]],
              !.blue_tokens = U8(e.blue_tokens - 1)]

\* Mutant of the Play arm: the token a completed color earns is not capped at 8.
step_play_no_cap(e, i, k) ==
    LET card == e.player_hand[i]
        played ==
            IF accepts(e.fireworks, card)
            THEN LET fw == add_card(e.fireworks, card)
                     blue == IF is_color_complete(fw, color_id(card))
                             THEN U8(e.blue_tokens + 1)
                             ELSE e.blue_tokens
                 IN [e EXCEPT !.fireworks = fw, !.blue_tokens = blue]
            ELSE LET d == discard_at(e, i)
                 IN [d EXCEPT !.black_tokens = U8(d.black_tokens - 1)]
    IN draw_into(played, i, k)

\* Play on slot i (the slot choose picked among hint_matches), deck draw k.
step_play(e, i, k) ==
    LET card == e.player_hand[i]
        played ==
            IF accepts(e.fireworks, card)
            THEN LET fw == add_card(e.fireworks, card)
                     blue == IF is_color_complete(fw, color_id(card))
                             THEN IF U8(e.blue_tokens + 1) > 8 THEN 8 ELSE U8(e.blue_tokens + 1)
                             ELSE e.blue_tokens
                 IN [e EXCEPT !.fireworks = fw, !.blue_tokens = blue]
            ELSE LET d == discard_at(e, i)
                 IN [d EXCEPT !.black_tokens = U8(d.black_tokens - 1)]
    IN draw_into(played, i, k)

\* Mutant of the Discard arm: the discard earns no blue token.
step_discard_no_token(e, i, k) == draw_into(discard_at(e, i), i, k)

\* Discard on slot i, deck draw k.
step_discard(e, i, k) ==
    LET d == draw_into(discard_at(e, i), i, k)
    IN [d EXCEPT !.blue_tokens = U8(d.blue_tokens + 1)]

\* Mutant of the end of step: the hands are swapped and the hints are not.
end_turn_hands_only(e) ==
    [e EXCEPT !.last_round_turns_taken = IF e.last_round THEN U8(@ + 1) ELSE @,
              !.player_hand = e.opponent_hand,
              !.opponent_hand = e.player_hand]

\* The end of every step: the last-round counter, then the swap of the seats.
end_turn(e) ==
    [e EXCEPT !.last_round_turns_taken = IF e.last_round THEN U8(@ + 1) ELSE @,
              !.player_hand = e.opponent_hand,
              !.opponent_hand = e.player_hand,
              !.player_hints = e.opponent_hints,
              !.opponent_hints = e.player_hints]

\* step(action) with the generator's two draws: slot i (used by Play and Discard)
\* and deck index k.
step(e, a, i, k) ==
    end_turn(CASE a.type = "ColorHint" -> step_color_hint(e, a.color)
               [] a.type = "SuitHint" -> step_suit_hint(e, a.suit)
               [] a.type = "Play" -> step_play(e, i, k)
               [] a.type = "Discard" -> step_discard(e, i, k))

\* The slots choose can return for an action: a hint action draws none (0 stands in).
SlotChoices(e, a) ==
    IF a.type \in {"Play", "Discard"} THEN hint_matches(e.player_hints, a.hint) ELSE {0}

\* ----------------------------------------------------------------- random

\* Env::random with the generator's ten draws ks[1..10].
RECURSIVE Deal(_, _, _, _)
Deal(deck, ks, n, cards) ==
    IF n > 2 * HandSize THEN [deck |-> deck, cards |-> cards]
    ELSE LET p == pop(deck, ks[n])
         IN Deal(p.coll, ks, n + 1, Append(cards, p.card))

random(ks) ==
    LET d == Deal(starting_deck, ks, 1, <<>>)
    IN [player_hand |-> [i \in Slots |-> d.cards[i + 1]],
        opponent_hand |-> [i \in Slots |-> d.cards[i + 1 + HandSize]],
        player_hints |-> [i \in Slots |-> hint_empty],
        opponent_hints |-> [i \in Slots |-> hint_empty],
        deck |-> d.deck,
        discard |-> collection_empty,
        blue_tokens |-> MaxBlue,
        black_tokens |-> StartBlack,
        fireworks |-> fireworks_empty,
        last_round |-> FALSE,
        last_round_turns_taken |-> 0]

\* ---------------------------------------------------------- determinize

\* Mutant of Env::new: the two hands are taken from the wrong PrivateInfo.
new_hands_swapped(pub, player_private_info, opponent_private_info) ==
    LET deck == remove_hand(
                    remove_hand(
                        remove_fireworks(subtract(starting_deck, pub.discard), pub.fireworks),
                        player_private_info.opponent_hand),
                    opponent_private_info.opponent_hand)
    IN [player_hand |-> player_private_info.opponent_hand,
        player_hints |-> pub.player_hints,
        opponent_hand |-> opponent_private_info.opponent_hand,
        opponent_hints |-> pub.opponent_hints,
        deck |-> deck,
        discard |-> pub.discard,
        blue_tokens |-> pub.blue_tokens,
        black_tokens |-> pub.black_tokens,
        fireworks |-> pub.fireworks,
        last_round |-> pub.last_round,
        last_round_turns_taken |-> pub.last_round_turns_taken]

\* Env::new
new(pub, player_private_info, opponent_private_info) ==
    LET deck == remove_hand(
                    remove_hand(
                        remove_fireworks(subtract(starting_deck, pub.discard), pub.fireworks),
                        player_private_info.opponent_hand),
                    opponent_private_info.opponent_hand)
    IN [player_hand |-> opponent_private_info.opponent_hand,
        player_hints |-> pub.player_hints,
        opponent_hand |-> player_private_info.opponent_hand,
        opponent_hints |-> pub.opponent_hints,
        deck |-> deck,
        discard |-> pub.discard,
        blue_tokens |-> pub.blue_tokens,
        black_tokens |-> pub.black_tokens,
        fireworks |-> pub.fireworks,
        last_round |-> pub.last_round,
        last_round_turns_taken |-> pub.last_round_turns_taken]

\* Mutant of sample_opponent_info: the hand the caller sees stays in the deck.
sample_deck_with_hand(pub, player_private_info) ==
    remove_fireworks(subtract(starting_deck, pub.discard), pub.fireworks)

\* The deck sample_opponent_info hands to determinize_hints.
sample_deck(pub, player_private_info) ==
    remove_hand(remove_fireworks(subtract(starting_deck, pub.discard), pub.fireworks),
                player_private_info.opponent_hand)

\* "go to first card": while hints[i].is_none() && i < 5 { i += 1 }.  hints[i] is
\* read before i < 5 is tested, so running past the last slot is an index out of
\* bounds: HandSize + 1 stands for that panic.
RECURSIVE first_card(_, _)
first_card(hints, i) ==
    IF i = HandSize THEN HandSize + 1
    ELSE IF hint_is_none(hints[i]) THEN first_card(hints, i + 1)
    ELSE i

\* "go to next card": loop { i += 1; if i == 5 || hints[i].is_some() { break } }.
RECURSIVE next_card(_, _)
next_card(hints, i) ==
    IF i + 1 = HandSize \/ hint_is_some(hints[i + 1]) THEN i + 1
    ELSE next_card(hints, i + 1)

no_cards == [i \in Slots |-> card_none]

\* The restart arm: every card set so far goes back to the deck.
RECURSIVE give_back(_, _, _)
give_back(deck, cards, j) ==
    IF j = HandSize THEN deck
    ELSE give_back(IF card_is_some(cards[j]) THEN coll_add(deck, cards[j]) ELSE deck,
                   cards, j + 1)

\* ------------------------------------------------- the game loop (main.rs)

(***************************************************************************)
(* The loop `while !env.is_over() { env.step(env.actions().choose(..)) }`.  *)
(* A full game has far too many lines of play to enumerate, so the model    *)
(* follows a few reference lines of play from the deal to the end (each a   *)
(* fixed rule picking a legal action and the generator's draws), and from   *)
(* every state on them explores every legal action, with every slot choice  *)
(* and the draws of DrawChoices, for MaxFree further steps.                 *)
(***************************************************************************)

Drivers == {"discarder", "hinter", "player", "buster"}

\* The generator's deck draw on a reference line.
DriverDraw(d, total) ==
    IF total = 0 THEN 0
    ELSE CASE d = "discarder" -> 0
           [] d = "hinter" -> total - 1
           [] d = "player" -> 0
           [] d = "buster" -> total \div 2

\* The deck draws explored off the reference lines.
DrawChoices(total) == IF total = 0 THEN {0} ELSE {0, total - 1}

Min(S) == CHOOSE x \in S : \A y \in S : x <= y

\* The first action of a Vec that lies in the set wanted, or the fallback.
FirstIn(seq, wanted, fallback) ==
    LET hits == {n \in 1 .. Len(seq) : seq[n] \in wanted}
    IN IF hits = {} THEN fallback ELSE seq[Min(hits)]

IsHint(a) == a.type \in {"ColorHint", "SuitHint"}

\* A hint that changes what the other seat knows.
Informative(e, a) == IsHint(a) /\ step(e, a, 0, 0).player_hints # e.opponent_hints

\* A card that can no longer be played: its rank is already on the stack.
Dead(e, card) == suit_id(card) < e.fireworks[color_id(card)]

\* The reference move of driver d: the action, the slot and the deck draw.
DriverAction(d, e) ==
    LET acts == actions(e)
        live == {i \in Slots : card_is_some(e.player_hand[i])}
        playable == {i \in live : accepts(e.fireworks, e.player_hand[i])}
        dead == {i \in live : Dead(e, e.player_hand[i])}
        twice == {i \in live : \E j \in live : j < i /\ e.player_hand[j] = e.player_hand[i]}
        all == {acts[n] : n \in 1 .. Len(acts)}
        plays == {a \in all : a.type = "Play"}
        discards == {a \in all : a.type = "Discard"}
        hints == {a \in all : IsHint(a)}
        anyPlay == FirstIn(acts, plays, acts[1])
        anyDiscard == FirstIn(acts, discards, anyPlay)
        anyHint == FirstIn(acts, hints, anyDiscard)
        newHint == FirstIn(acts, {a \in hints : Informative(e, a)}, anyHint)
        lastHint == IF hints = {} THEN anyDiscard ELSE acts[Len(acts)]
    IN CASE d = "discarder" -> FirstIn(acts, discards, lastHint)
         [] d = "hinter" -> newHint
         [] d = "buster" -> anyPlay
         [] d = "player" ->
              IF playable # {} THEN Play(e.player_hints[Min(playable)])
              ELSE IF e.blue_tokens < 8 /\ dead # {} THEN Discard(e.player_hints[Min(dead)])
              ELSE IF e.blue_tokens < 8 /\ twice # {} THEN Discard(e.player_hints[Min(twice)])
              ELSE newHint

DriverSlot(d, e, a) ==
    LET live == {i \in Slots : card_is_some(e.player_hand[i])}
        playable == {i \in live : accepts(e.fireworks, e.player_hand[i])}
        dead == {i \in live : Dead(e, e.player_hand[i])}
        twice == {i \in live : \E j \in live : j < i /\ e.player_hand[j] = e.player_hand[i]}
        choices == SlotChoices(e, a)
    IN IF d = "player" /\ a.type = "Play" /\ playable \cap choices # {}
       THEN Min(playable \cap choices)
       ELSE IF d = "player" /\ a.type = "Discard" /\ dead \cap choices # {}
       THEN Min(dead \cap choices)
       ELSE IF d = "player" /\ a.type = "Discard" /\ twice \cap choices # {}
       THEN Min(twice \cap choices)
       ELSE Min(choices)

\* The ten draws of the deal on a reference line.
DealDraws(d) == [n \in 1 .. 2 * HandSize |-> DriverDraw(d, DeckSize - (n - 1))]

VARIABLES
    env,          \* the HanabiEnv
    driver,       \* the reference line of play this behaviour started on
    free,         \* steps taken off the reference line
    turn,         \* steps taken since the deal
    since_empty,  \* steps taken since the deck ran out of cards
    det,          \* a call of Env::determinize on env: its position and locals
    drawn,        \* the slot the last step drew into, HandSize after a hint
    pol,          \* a call of policy on env: its position and locals
    hist          \* the last call of step on env: its arguments and the env before

vars == <<env, driver, free, turn, since_empty, det, drawn, pol, hist>>

\* No call of policy under way.
PolIdle ==
    [pc |-> "idle", num_rollouts |-> 0, n |-> 0, actions |-> <<>>, rewards |-> <<>>,
     visits |-> <<>>, child_upper |-> <<>>, child_lower |-> <<>>,
     upper |-> [inf |-> -1, v |-> 0], lower |-> [inf |-> 1, v |-> 0],
     log |-> <<>>, result |-> [type |-> "none"]]

\* The last call of pop_match by determinize_hints: its arguments and what it
\* returned and left.  No call yet.
NoCall ==
    [called |-> FALSE, some |-> FALSE, card |-> card_none, num |-> 0, den |-> 1,
     hint |-> hint_none, before |-> collection_empty, after |-> collection_empty]

\* No call of step yet.  redrawn collects the slots drawn into since the deal, each
\* with the parity of the turn it was drawn on.
NoStep ==
    [before |-> <<>>, action |-> [type |-> "none"], slot |-> HandSize, redrawn |-> {}]

\* No call of determinize under way.
DetIdle ==
    [pc |-> "idle", perspective |-> TRUE, deck |-> collection_empty, cards |-> no_cards,
     i |-> 0, num |-> 1, den |-> 1, restarted |-> FALSE, env |-> <<>>,
     action |-> [type |-> "none"], last |-> NoCall]

Init ==
    /\ driver \in Drivers
    /\ env = random(DealDraws(driver))
    /\ free = 0
    /\ turn = 0
    /\ since_empty = 0
    /\ det = DetIdle
    /\ drawn = HandSize
    /\ pol = PolIdle
    /\ hist = NoStep

\* What every step of the loop does to the bookkeeping of the model.
Count(e, a, i) ==
    /\ turn' = turn + 1
    /\ since_empty' = IF e.deck.total = 0 THEN since_empty + 1 ELSE 0
    /\ drawn' = IF a.type \in {"Play", "Discard"} THEN i ELSE HandSize

\* The call step(a) on e with the slot i the generator chose, as hist keeps it.
Record(e, a, i) ==
    hist' = [before |-> e, action |-> a, slot |-> i,
             redrawn |-> IF a.type \in {"Play", "Discard"}
                         THEN hist.redrawn \cup {<<turn % 2, i>>}
                         ELSE hist.redrawn]

\* A step of the loop on the reference line.
ScriptStep ==
    /\ free = 0
    /\ det.pc = "idle"
    /\ ~is_over(env)
    /\ Len(actions(env)) > 0
    /\ LET a == DriverAction(driver, env)
           i == DriverSlot(driver, env, a)
           k == DriverDraw(driver, env.deck.total)
       IN /\ env' = step(env, a, i, k)
          /\ Count(env, a, i)
          /\ Record(env, a, i)
    /\ UNCHANGED <<driver, free, det, pol>>

\* A step of the loop with any legal action and any slot choice.
FreeStep ==
    /\ free < MaxFree
    /\ det.pc = "idle"
    /\ ~is_over(env)
    /\ \E n \in 1 .. Len(actions(env)) :
          LET a == actions(env)[n]
          IN \E i \in SlotChoices(env, a), k \in DrawChoices(env.deck.total) :
                /\ env' = step(env, a, i, k)
                /\ Count(env, a, i)
                /\ Record(env, a, i)
    /\ free' = free + 1
    /\ UNCHANGED <<driver, det, pol>>

Next == ScriptStep \/ FreeStep

Spec == Init /\ [][Next]_vars



\* ------------------------------------------------ Env::determinize (env.rs)

(***************************************************************************)
(* A call of Env::determinize on the public information of env and the      *)
(* private information of one seat, taken from any state of a reference     *)
(* line: sample_opponent_info builds the deck and runs determinize_hints,   *)
(* one pop_match per step, and Env::new builds the result.                  *)
(***************************************************************************)

\* The draws of pop_match explored.
DetDraws(total) == IF total = 0 THEN {0} ELSE {0, total - 1}

DetHints == env.player_hints

DetPrivate == private_info(env, det.perspective)

\* sample_opponent_info up to the first slot.  The policy (perspective TRUE) is
\* only called on an env that is not over.
DetStart ==
    /\ det.pc = "idle"
    /\ free = 0
    /\ \E perspective \in BOOLEAN :
          /\ perspective => ~is_over(env)
          /\ LET i == first_card(env.player_hints, 0)
             IN det' = [DetIdle EXCEPT
                           !.pc = IF i > HandSize THEN "panic" ELSE "walk",
                           !.perspective = perspective,
                           !.deck = sample_deck(public_info(env), private_info(env, perspective)),
                           !.i = i]
    /\ UNCHANGED <<env, driver, free, turn, since_empty, drawn, pol, hist>>

\* The Some arm of the loop, and the move to the next card.
DetPlace ==
    /\ det.pc = "walk"
    /\ det.i < HandSize
    /\ \E k \in DetDraws(restrict(det.deck, DetHints[det.i]).total) :
          LET r == pop_match(det.deck, DetHints[det.i], k)
          IN /\ r.some
             /\ det' = [det EXCEPT !.cards[det.i] = r.card,
                                   !.num = @ * r.num,
                                   !.den = @ * r.den,
                                   !.deck = r.coll,
                                   !.i = next_card(DetHints, det.i),
                                   !.last = [called |-> TRUE, some |-> r.some,
                                             card |-> r.card, num |-> r.num, den |-> r.den,
                                             hint |-> DetHints[det.i],
                                             before |-> det.deck, after |-> r.coll]]
    /\ UNCHANGED <<env, driver, free, turn, since_empty, drawn, pol, hist>>

\* Mutant of the None arm: the probability is not reset.
DetRestart_keeps_prob ==
    /\ det.pc = "walk"
    /\ det.i < HandSize
    /\ ~pop_match(det.deck, DetHints[det.i], 0).some
    /\ LET i == first_card(DetHints, 0)
           r == pop_match(det.deck, DetHints[det.i], 0)
       IN det' = [det EXCEPT !.pc = IF i > HandSize THEN "panic" ELSE "walk",
                             !.deck = give_back(r.coll, det.cards, 0),
                             !.cards = no_cards,
                             !.i = i,
                             !.restarted = TRUE,
                             !.last = [called |-> TRUE, some |-> r.some,
                                       card |-> r.card, num |-> r.num, den |-> r.den,
                                       hint |-> DetHints[det.i],
                                       before |-> det.deck, after |-> r.coll]]
    /\ UNCHANGED <<env, driver, free, turn, since_empty, drawn, pol, hist>>

\* The None arm of the loop: start over.
DetRestart ==
    /\ det.pc = "walk"
    /\ det.i < HandSize
    /\ ~pop_match(det.deck, DetHints[det.i], 0).some
    /\ LET i == first_card(DetHints, 0)
           r == pop_match(det.deck, DetHints[det.i], 0)
       IN det' = [det EXCEPT !.pc = IF i > HandSize THEN "panic" ELSE "walk",
                             !.num = 1,
                             !.den = 1,
                             !.deck = give_back(r.coll, det.cards, 0),
                             !.cards = no_cards,
                             !.i = i,
                             !.restarted = TRUE,
                             !.last = [called |-> TRUE, some |-> r.some,
                                       card |-> r.card, num |-> r.num, den |-> r.den,
                                       hint |-> DetHints[det.i],
                                       before |-> det.deck, after |-> r.coll]]
    /\ UNCHANGED <<env, driver, free, turn, since_empty, drawn, pol, hist>>

\* The loop is left: determinize builds the env with Env::new.
DetReturn ==
    /\ det.pc = "walk"
    /\ det.i = HandSize
    /\ det' = [det EXCEPT !.pc = "done",
                          !.env = new(public_info(env), DetPrivate,
                                      [opponent_hand |-> det.cards])]
    /\ UNCHANGED <<env, driver, free, turn, since_empty, drawn, pol, hist>>

\* The caller is done with the determinized env.
DetDrop ==
    /\ det.pc \in {"done", "stepped"}
    /\ det' = DetIdle
    /\ UNCHANGED <<env, driver, free, turn, since_empty, drawn, pol, hist>>

NextDet == ScriptStep \/ DetStart \/ DetPlace \/ DetRestart \/ DetReturn \/ DetDrop

SpecDet == Init /\ [][NextDet]_vars

\* ------------------------------- rollout_single_determinization (main.rs)

(***************************************************************************)
(* The first step of a rollout: an action of the determinized env, chosen   *)
(* among its actions, is applied to it.  Besides the deals of the reference *)
(* lines the constructed state of tests::test_weird is a starting point.    *)
(***************************************************************************)

\* The draws of the deck explored in the first step of a rollout.
RolloutDraws(total) == IF total = 0 THEN {0} ELSE {0, total - 1}

RolloutStep ==
    /\ det.pc = "done"
    /\ det.perspective
    /\ \E n \in 1 .. Len(actions(det.env)) :
          LET action == actions(det.env)[n]
          IN \E i \in SlotChoices(det.env, action), k \in RolloutDraws(det.env.deck.total) :
                det' = [det EXCEPT !.pc = "stepped",
                                   !.action = action,
                                   !.env = step(det.env, action, i, k)]
    /\ UNCHANGED <<env, driver, free, turn, since_empty, drawn, pol, hist>>

weird_public_info ==
    [player_hints |-> [i \in Slots |-> <<[color |-> 30, suit |-> 1],
                                          [color |-> 1, suit |-> 15],
                                          [color |-> 1, suit |-> 16],
                                          [color |-> 31, suit |-> 15],
                                          [color |-> 31, suit |-> 15]>>[i + 1]],
     opponent_hints |-> [i \in Slots |-> <<[color |-> 4, suit |-> 31],
                                            [color |-> 27, suit |-> 31],
                                            [color |-> 4, suit |-> 31],
                                            [color |-> 31, suit |-> 31],
                                            [color |-> 27, suit |-> 31]>>[i + 1]],
     discard |-> collection_empty,
     blue_tokens |-> 7,
     black_tokens |-> 2,
     fireworks |-> [c \in Colors |-> <<1, 0, 0, 0, 1>>[c + 1]],
     last_round |-> FALSE,
     last_round_turns_taken |-> 0]

\* Blue 3, Yellow 1, Blue 1, Yellow 1, White 1.
weird_private_info ==
    [opponent_hand |-> [i \in Slots |-> <<parts_id(2, 2), parts_id(3, 0), parts_id(2, 0),
                                           parts_id(3, 0), parts_id(0, 0)>>[i + 1]]]

\* The acting hand of the first world sample_opponent_info can return there (every
\* draw 0): Red 1, White 1, White 5, White 2, White 2.
weird_op_info ==
    [opponent_hand |-> [i \in Slots |-> <<parts_id(1, 0), parts_id(0, 0), parts_id(0, 4),
                                           parts_id(0, 1), parts_id(0, 1)>>[i + 1]]]

InitWeird ==
    /\ driver = "buster"
    /\ env = new(weird_public_info, weird_private_info, weird_op_info)
    /\ free = 0
    /\ turn = 0
    /\ since_empty = 0
    /\ det = DetIdle
    /\ drawn = HandSize
    /\ pol = PolIdle
    /\ hist = NoStep

InitRollout == Init \/ InitWeird

NextRollout == NextDet \/ RolloutStep

SpecRollout == InitRollout /\ [][NextRollout]_vars

\* ------------------------- the whole rollout of one determinization (main.rs)

(***************************************************************************)
(* rollout_single_determinization to its end: the determinized env steps    *)
(* with an action of its own actions() until it is over.  The choices of    *)
(* the generator are those of the reference line the game is on.            *)
(***************************************************************************)

\* The first step, taken whatever is_over says, and the body of the while loop;
\* choose(..).unwrap() panics on an empty Vec.
PlayoutStep ==
    /\ det.pc \in {"done", "rolling"}
    /\ det.perspective
    /\ det.pc = "rolling" => ~is_over(det.env)
    /\ IF Len(actions(det.env)) = 0
       THEN det' = [det EXCEPT !.pc = "panic"]
       ELSE LET a == DriverAction(driver, det.env)
                i == DriverSlot(driver, det.env, a)
                k == DriverDraw(driver, det.env.deck.total)
            IN det' = [det EXCEPT !.pc = "rolling",
                                  !.action = IF det.pc = "done" THEN a ELSE @,
                                  !.env = step(det.env, a, i, k)]
    /\ UNCHANGED <<env, driver, free, turn, since_empty, drawn, pol, hist>>

NextPlayout == NextDet \/ PlayoutStep

SpecPlayout == Init /\ [][NextPlayout]_vars

\* --------------------------------------------------------- policy (main.rs)

(***************************************************************************)
(* The loop of evaluate: while the env is not over, policy picks an action  *)
(* and the env steps with it.  policy takes its rollouts from rollout_fn, a *)
(* parameter: a rollout is modelled by what it returns, a first action of   *)
(* the env and a weighted reward, drawn from small sets.  The rewards are    *)
(* f32 in the code and exact integers (in units of the smallest) here; the  *)
(* two infinities are the records with inf = -1 and inf = 1.                *)
(***************************************************************************)

F32(x) == [inf |-> 0, v |-> x]

NegInfinity == [inf |-> -1, v |-> 0]

Infinity == [inf |-> 1, v |-> 0]

\* a < b on these values.
Less(a, b) == a.inf < b.inf \/ (a.inf = 0 /\ b.inf = 0 /\ a.v < b.v)

\* The weighted rewards a rollout returns.
RolloutRewards == {0, 1, 2}

\* The first actions a rollout returns.
RolloutActions(e) ==
    {actions(e)[n] : n \in 1 .. Min({Len(actions(e)), MaxPolicyActions})}

\* actions.iter().position(|&a| a == action): 0 stands for None.
position(seq, x) ==
    LET hits == {n \in 1 .. Len(seq) : seq[n] = x}
    IN IF hits = {} THEN 0 ELSE Min(hits)

\* Mutant of the selection loop: a later action with an equal total wins.
RECURSIVE BestFrom_last(_, _, _, _)
BestFrom_last(rewards, i, best_i, best_score) ==
    IF i > Len(rewards) THEN best_i
    ELSE IF ~Less(F32(rewards[i]), best_score)
    THEN BestFrom_last(rewards, i + 1, i, F32(rewards[i]))
    ELSE BestFrom_last(rewards, i + 1, best_i, best_score)

\* The selection loop of policy from index i on (indices from 1 here).
RECURSIVE BestFrom(_, _, _, _)
BestFrom(rewards, i, best_i, best_score) ==
    IF i > Len(rewards) THEN best_i
    ELSE IF Less(best_score, F32(rewards[i]))
    THEN BestFrom(rewards, i + 1, i, F32(rewards[i]))
    ELSE BestFrom(rewards, i + 1, best_i, best_score)

\* policy is called on the env.
PolStart ==
    /\ pol.pc = "idle"
    /\ ~is_over(env)
    /\ turn < MaxPolicyTurns
    /\ \E num_rollouts \in 0 .. MaxRollouts :
          pol' = [PolIdle EXCEPT !.pc = "loop", !.num_rollouts = num_rollouts]
    /\ UNCHANGED <<env, driver, free, turn, since_empty, det, drawn, hist>>

\* One pass of `for _ in 0..num_rollouts`.
PolRollout ==
    /\ pol.pc = "loop"
    /\ pol.n < pol.num_rollouts
    /\ \E action \in RolloutActions(env), r \in RolloutRewards :
          LET i == position(pol.actions, action)
              upper == IF Less(pol.upper, F32(r)) THEN F32(r) ELSE pol.upper
              lower == IF Less(F32(r), pol.lower) THEN F32(r) ELSE pol.lower
              seen ==
                  [pol EXCEPT !.rewards[i] = @ + r,
                              !.visits[i] = @ + 1,
                              !.child_upper[i] = IF @ < r THEN r ELSE @,
                              !.child_lower[i] = IF @ > r THEN r ELSE @]
              fresh ==
                  [pol EXCEPT !.actions = Append(@, action),
                              !.rewards = Append(@, r),
                              !.child_lower = Append(@, r),
                              !.child_upper = Append(@, r),
                              !.visits = Append(@, 1)]
          IN pol' = [(IF i > 0 THEN seen ELSE fresh) EXCEPT
                        !.upper = upper,
                        !.lower = lower,
                        !.n = @ + 1,
                        !.log = Append(@, [action |-> action, reward |-> r])]
    /\ UNCHANGED <<env, driver, free, turn, since_empty, det, drawn, hist>>

\* The selection loop and `actions[best_i]`, which panics on an empty Vec.
PolPick ==
    /\ pol.pc = "loop"
    /\ pol.n = pol.num_rollouts
    /\ LET best_i == BestFrom(pol.rewards, 1, 1, NegInfinity)
       IN pol' = IF best_i > Len(pol.actions)
                 THEN [pol EXCEPT !.pc = "panic"]
                 ELSE [pol EXCEPT !.pc = "returned", !.result = pol.actions[best_i]]
    /\ UNCHANGED <<env, driver, free, turn, since_empty, det, drawn, hist>>

\* evaluate: env.step(&action) with the action policy returned, the generator's
\* draws those of the reference line.
EvalStep ==
    /\ pol.pc = "returned"
    /\ LET i == DriverSlot(driver, env, pol.result)
           k == DriverDraw(driver, env.deck.total)
       IN /\ env' = step(env, pol.result, i, k)
          /\ Count(env, pol.result, i)
          /\ Record(env, pol.result, i)
    /\ pol' = PolIdle
    /\ UNCHANGED <<driver, free, det>>

NextPolicy == PolStart \/ PolRollout \/ PolPick \/ EvalStep

SpecPolicy == Init /\ [][NextPolicy]_vars

\* ------------------------------------------------------------ the claims

Live(hand) == {i \in Slots : card_is_some(hand[i])}

InHand(hand, id) == Cardinality({i \in Slots : hand[i] = id})

Score(e) == SumTo(e.fireworks, NumColors - 1)

\* C1: the deck is the starting deck minus the discard, the played cards and both
\* hands, identity by identity with no count wrapped below zero, and the cards of
\* the five places add up to 50.
C1_Conservation ==
    /\ \A id \in Ids :
          /\ env.deck.counts[id] \in 0 .. starting_deck.counts[id]
          /\ env.discard.counts[id] \in 0 .. starting_deck.counts[id]
          /\ env.deck.counts[id] =
                starting_deck.counts[id] - env.discard.counts[id]
                - (IF suit_id(id) < env.fireworks[color_id(id)] THEN 1 ELSE 0)
                - InHand(env.player_hand, id) - InHand(env.opponent_hand, id)
    /\ env.discard.total + env.deck.total + Cardinality(Live(env.player_hand))
       + Cardinality(Live(env.opponent_hand)) + Score(env) = 50

\* C1 witness: cards sit in all five places after plays, misplays or discards.
C1_Witness ==
    /\ env.discard.total > 0
    /\ Score(env) > 0
    /\ env.deck.total > 0
    /\ env.deck.total < 40
    /\ free > 0

\* C2: every slot that holds a card has a hint that matches the card.
C2_HintSoundness ==
    \A i \in Slots :
       /\ card_is_some(env.player_hand[i]) =>
             /\ BitSet(env.player_hints[i].color, color_id(env.player_hand[i]))
             /\ BitSet(env.player_hints[i].suit, suit_id(env.player_hand[i]))
       /\ card_is_some(env.opponent_hand[i]) =>
             /\ BitSet(env.opponent_hints[i].color, color_id(env.opponent_hand[i]))
             /\ BitSet(env.opponent_hints[i].suit, suit_id(env.opponent_hand[i]))

\* C2 witness: a hand holding a slot narrowed by a color hint and by a rank hint,
\* next to a slot that only lost bits.
C2_Witness ==
    \E i, j \in Slots :
       /\ card_is_some(env.player_hand[i]) /\ card_is_some(env.player_hand[j])
       /\ env.player_hints[i].color = Pow2(color_id(env.player_hand[i]))
       /\ env.player_hints[i].suit = Pow2(suit_id(env.player_hand[i]))
       /\ env.player_hints[j].color \notin {EmptyMask, Pow2(color_id(env.player_hand[j]))}

\* C3: blue_tokens stays in [0,8] and black_tokens in [1,4] (an underflow would
\* wrap to 255).
C3_TokenRanges ==
    /\ env.blue_tokens \in 0 .. 8
    /\ env.black_tokens \in 1 .. 4

\* C3 witness: the hint tokens are used up and a strike has been taken.
C3_Witness == env.blue_tokens = 0 /\ env.black_tokens < 4

\* C4: once the deck is empty the game is over after two further steps, whatever
\* the two steps are.
C4_FinalRoundTwoSteps == since_empty >= 2 => is_over(env)

\* The variant of the game loop: it falls with every step and never below zero.
Rank(e) == 2 * e.deck.total + e.blue_tokens + 2 * (2 - e.last_round_turns_taken)

MaxTurns == 2 * (DeckSize - 2 * HandSize) + MaxBlue + 4

\* C5: play terminates: every step lowers the variant, which is never negative, so
\* a game takes at most 2 * 40 + 12 steps from the deal, and the final score is in
\* [0,25].
C5_Termination ==
    /\ [][Rank(env') < Rank(env) /\ Rank(env') >= 0]_vars
    /\ [](turn + Rank(env) <= MaxTurns)
    /\ [](is_over(env) => Score(env) \in 0 .. 25)

\* C5 witness: a game that ran through the whole deck and its final round.
C5_Witness ==
    /\ is_over(env)
    /\ turn > DeckSize
    /\ env.last_round_turns_taken = 2

\* C6: is_over is black_tokens = 1, or a full score, or an empty deck with the
\* last round run out; and the deck-emptiness is_over derives from public data
\* agrees with deck.total = 0.
C6_TerminalCondition ==
    /\ is_over(env) <=>
          \/ env.black_tokens = 1
          \/ Score(env) = 25
          \/ env.deck.total = 0 /\ env.last_round /\ env.last_round_turns_taken = 2
    /\ (env.discard.total + NumSome(env.player_hints) + NumSome(env.opponent_hints)
        + Score(env) = 50) <=> env.deck.total = 0

\* C6 witness: the game ended by the final round alone.
C6_Witness ==
    /\ is_over(env)
    /\ env.black_tokens > 1
    /\ Score(env) < 25
    /\ env.deck.total = 0

\* The legal actions as the documentation lists them.
LegalActions(e) ==
    {Play(e.player_hints[i]) : i \in Live(e.player_hand)}
    \cup {Discard(e.player_hints[i]) : i \in {j \in Live(e.player_hand) : e.blue_tokens < 8}}
    \cup {ColorHint(c) : c \in {c \in Colors : e.blue_tokens > 0
                                   /\ \E i \in Live(e.opponent_hand) :
                                         color_id(e.opponent_hand[i]) = c}}
    \cup {SuitHint(r) : r \in {r \in Suits : e.blue_tokens > 0
                                  /\ \E i \in Live(e.opponent_hand) :
                                        suit_id(e.opponent_hand[i]) = r}}

\* C7: actions() holds exactly the legal actions, none of them twice; without blue
\* tokens it holds plays and discards only.
C7_LegalActions ==
    LET acts == actions(env)
    IN /\ {acts[n] : n \in 1 .. Len(acts)} = LegalActions(env)
       /\ \A m, n \in 1 .. Len(acts) : m # n => acts[m] # acts[n]
       /\ env.blue_tokens = 0 => \A n \in 1 .. Len(acts) : acts[n].type \in {"Play", "Discard"}

\* C7 witness: no blue token left, two slots sharing a hint and a third differing.
C7_Witness ==
    /\ env.blue_tokens = 0
    /\ \E i, j, l \in Live(env.player_hand) :
          /\ i # j
          /\ env.player_hints[i] = env.player_hints[j]
          /\ env.player_hints[l] # env.player_hints[i]

\* C8: a game that is not over has a legal action.
C8_ActionsNonEmpty == ~is_over(env) => Len(actions(env)) > 0

\* C8 witness: the last round with no blue token left, the game not over yet.
C8_Witness == ~is_over(env) /\ env.last_round /\ env.blue_tokens = 0

\* C9: an env returned by determinize(env.public_info(), env.private_info(false))
\* has the public information of env, holds the hand of the given PrivateInfo as
\* its opponent hand, and each card of its player hand matches the slot's hint.
C9_DeterminizeConsistent ==
    (det.pc = "done" /\ ~det.perspective) =>
       /\ public_info(det.env) = public_info(env)
       /\ det.env.opponent_hand = private_info(env, FALSE).opponent_hand
       /\ \A i \in Slots :
             card_is_some(det.env.player_hand[i]) =>
                /\ BitSet(env.player_hints[i].color, color_id(det.env.player_hand[i]))
                /\ BitSet(env.player_hints[i].suit, suit_id(det.env.player_hand[i]))

\* C9 witness: a determinized env sampled against a hand whose hints carry rank
\* information, holding a hand other than the true one.
C9_Witness ==
    /\ det.pc = "done"
    /\ ~det.perspective
    /\ det.env.player_hand # env.player_hand
    /\ \E i \in Slots : env.player_hints[i].suit \notin {EmptyMask, NoneMask}

\* Whether some sequence of draws takes determinize_hints from slot i with this
\* deck to the end of the walk without a failed pop_match.
RECURSIVE CanFinish(_, _, _)
CanFinish(deck, hints, i) ==
    IF i >= HandSize THEN i = HandSize
    ELSE \E k \in 0 .. (restrict(deck, hints[i]).total - 1) :
            LET r == pop_match(deck, hints[i], k)
            IN r.some /\ CanFinish(r.coll, hints, next_card(hints, i))

\* C10: called as the policy calls it, determinize_hints can always run to
\* completion: from every state of the walk, after any number of restarts, either
\* the cards set so far can be completed or the walk fails and the restart it
\* leads to can be completed; and the scan for the first card never runs off the
\* hints.
C10_DeterminizeCanFinish ==
    det.perspective =>
       /\ det.pc # "panic"
       /\ det.pc = "walk" =>
             \/ CanFinish(det.deck, DetHints, det.i)
             \/ CanFinish(give_back(det.deck, det.cards, 0), DetHints, first_card(DetHints, 0))

\* C10 witness: after a restart the walk is again in a dead end, which only the
\* next restart gets it out of.
C10_Witness ==
    /\ det.pc = "walk"
    /\ det.perspective
    /\ det.restarted
    /\ det.i > first_card(DetHints, 0)
    /\ ~CanFinish(det.deck, DetHints, det.i)

\* C11: Env::new on the public information of env and the private information of
\* the two seats gives env back, field by field, the recomputed deck included.
C11_Reconstruction ==
    new(public_info(env), private_info(env, TRUE), private_info(env, FALSE)) = env

\* C11 witness: cards were played, discarded and drawn, a slot is empty and the
\* last round is under way.
C11_Witness ==
    /\ \E c \in Colors : env.fireworks[c] >= 2
    /\ env.discard.total > 0
    /\ env.last_round
    /\ env.last_round_turns_taken = 1
    /\ \E i \in Slots : card_is_none(env.opponent_hand[i])

\* A Play whose hint is held by exactly one slot of the acting hand and is
\* matched by exactly one card identity.
Determined(e, a) ==
    /\ a.type = "Play"
    /\ Cardinality({i \in Slots : e.player_hints[i] = a.hint}) = 1
    /\ Cardinality({id \in Ids : hint_matches_card(a.hint, id)}) = 1

\* The play ends the game in the world the information was taken from.
EndsGame(e, a) ==
    \A i \in SlotChoices(e, a), k \in DrawChoices(e.deck.total) : is_over(step(e, a, i, k))

\* C12: after a determined Play that ends the game, every determinized env is
\* over and its reward equals the reward of the PublicInfo that was handed to
\* the determinization.
C12_ClosedFormReward ==
    (det.pc = "stepped" /\ Determined(env, det.action) /\ EndsGame(env, det.action)) =>
       /\ is_over(det.env)
       /\ reward(det.env) = public_reward(public_info(env))

\* C13: after a determined Play the public information of a determinized env is
\* the one the same Play leaves in the world the information was taken from,
\* itself one of the worlds a determinization can return, whatever the draws; so
\* any two determinizations agree on public_info(), is_over() and reward().
C13_RewardWorldIndependent ==
    (det.pc = "stepped" /\ Determined(env, det.action)) =>
       \A i \in SlotChoices(env, det.action), k \in 0 .. (env.deck.total - 1) :
          LET world == step(env, det.action, i, k)
          IN /\ public_info(det.env) = public_info(world)
             /\ is_over(det.env) = is_over(world)
             /\ reward(det.env) = reward(world)

\* C13 witness: a determined Play was applied to a determinized env whose acting
\* hand is not the hand of the world, and a card was drawn after it.
C13_Witness ==
    /\ det.pc = "stepped"
    /\ Determined(env, det.action)
    /\ \E i \in Slots : /\ card_is_some(det.env.opponent_hand[i])
                         /\ card_is_some(env.player_hand[i])
                         /\ env.player_hints[i] # det.action.hint
                         /\ det.env.opponent_hand[i] # env.player_hand[i]
    /\ env.deck.total > 1

\* The card identities a hint matches.
MatchSet(h) == {id \in Ids : hint_matches_card(h, id)}

\* Hint after has no color or rank bit that hint before has not, and matches no
\* card that before does not match.
Narrows(after, before) ==
    \/ after = before
    \/ /\ MatchSet(after) \subseteq MatchSet(before)
       /\ \A b \in 0 .. 5 : BitSet(after.color, b) => BitSet(before.color, b)
       /\ \A b \in 0 .. 5 : BitSet(after.suit, b) => BitSet(before.suit, b)

\* C14: across a step the hint of every slot that was not drawn into only
\* narrows: no slot of the hinted seat, and no slot of the acting seat other than
\* the one the step drew into, regains a color or rank bit (the seats are swapped
\* by the step).
C14_HintMonotone ==
    [][/\ \A j \in Slots : Narrows(env'.player_hints[j], env.opponent_hints[j])
       /\ \A j \in Slots \ {drawn'} : Narrows(env'.opponent_hints[j], env.player_hints[j])]_vars

\* C14 witness: a hint was given to a hand that had been hinted before, a slot of
\* it narrowed by a color hint that named another color twice.
C14_Witness ==
    /\ drawn = HandSize
    /\ turn > 2
    /\ \E j \in Slots :
          /\ card_is_some(env.player_hand[j])
          /\ env.player_hints[j].color # Pow2(color_id(env.player_hand[j]))
          /\ Cardinality({b \in Colors : BitSet(env.player_hints[j].color, b)}) <= 3

\* The copies of a collection that match a hint.
MatchTotal(coll, hint) ==
    SumTo([id \in Ids |-> IF hint_matches_card(hint, id) THEN coll.counts[id] ELSE 0],
          NumIds - 1)

\* C15 as stated: the weight pop_match returns with identity i is m / (R + 1), m
\* the count of i after the removal and R the total of the hint-restricted
\* multiset before the removal.
C15_WeightAsStated ==
    (det.last.called /\ det.last.some) =>
       LET m == det.last.before.counts[det.last.card] - 1
           R == MatchTotal(det.last.before, det.last.hint)
       IN det.last.num * (R + 1) = m * det.last.den

\* C15 amended: the weight is (m + 1) / R, the count of i before the removal over
\* the restricted total before the removal.
C15_Weight ==
    (det.last.called /\ det.last.some) =>
       LET m == det.last.before.counts[det.last.card] - 1
           R == MatchTotal(det.last.before, det.last.hint)
       IN /\ R > 0
          /\ det.last.num * R = (m + 1) * det.last.den
          /\ det.last.den > 0

\* C15 witness: pop_match drew one of several copies of an identity from a deck
\* the hint restricts.
C15_Witness ==
    /\ det.last.called
    /\ det.last.some
    /\ det.last.before.counts[det.last.card] >= 2
    /\ MatchTotal(det.last.before, det.last.hint) < det.last.before.total
    /\ MatchTotal(det.last.before, det.last.hint) > det.last.before.counts[det.last.card]

\* C20: pop_match returns None iff no identity with a copy in the collection
\* matches the hint, and then leaves the collection as it was; otherwise the card
\* it returns matches the hint and had a copy, and exactly one copy of it is
\* removed, the other counts unchanged.
C20_PopMatch ==
    det.last.called =>
       LET before == det.last.before
           after == det.last.after
           card == det.last.card
       IN /\ ~det.last.some <=>
                ~\E id \in Ids : before.counts[id] > 0 /\ hint_matches_card(det.last.hint, id)
          /\ ~det.last.some => after = before
          /\ det.last.some =>
                /\ card \in Ids
                /\ hint_matches_card(det.last.hint, card)
                /\ before.counts[card] > 0
                /\ after.total = before.total - 1
                /\ \A id \in Ids :
                      after.counts[id] = before.counts[id] - (IF id = card THEN 1 ELSE 0)

\* C20 witness: pop_match returned None on a deck that holds cards, after calls
\* that returned a card.
C20_Witness ==
    /\ det.last.called
    /\ ~det.last.some
    /\ det.last.before.total > 0
    /\ det.last.before.total < sample_deck(public_info(env), DetPrivate).total

\* The ranks of a color that can still be played: those from the height of the
\* stack up to, and without, the first rank whose copies are all discarded.
FutureOfColor(fw, discard, c) ==
    Cardinality({r \in fw[c] .. (NumSuits - 1) :
                    \A q \in fw[c] .. r :
                       starting_deck.counts[parts_id(c, q)] - discard.counts[parts_id(c, q)] > 0})

Future(fw, discard) ==
    SumTo([c \in Colors |-> FutureOfColor(fw, discard, c)], NumColors - 1)

\* The scenario of test_future_reward: the discard grows by three White 1, a
\* Green 1, two Yellow 3 and a Red 5, then Blue 1 and Blue 2 are played.
Scenario1 == coll_add(coll_add(coll_add(collection_empty, 0), 0), 0)

Scenario2 == coll_add(Scenario1, parts_id(4, 0))

Scenario3 == coll_add(coll_add(Scenario2, parts_id(3, 2)), parts_id(3, 2))

Scenario4 == coll_add(Scenario3, parts_id(1, 4))

ScenarioFireworks == add_card(add_card(fireworks_empty, parts_id(2, 0)), parts_id(2, 1))

\* What possible_future_rewards returns on the six inputs of test_future_reward.
ScenarioRewards ==
    <<possible_future_rewards(fireworks_empty, collection_empty),
      possible_future_rewards(fireworks_empty, Scenario1),
      possible_future_rewards(fireworks_empty, Scenario2),
      possible_future_rewards(fireworks_empty, Scenario3),
      possible_future_rewards(fireworks_empty, Scenario4),
      possible_future_rewards(ScenarioFireworks, Scenario4)>>

\* C17: possible_future_rewards is the sum over the colors of the consecutive
\* ranks from the height of the stack that still have a copy outside the discard,
\* and on the scenario of test_future_reward it returns 25, 20, 20, 17, 16, 14.
C17_FutureRewards ==
    /\ possible_future_rewards(env.fireworks, env.discard) = Future(env.fireworks, env.discard)
    /\ ScenarioRewards = <<25, 20, 20, 17, 16, 14>>

\* C17 witness: a color is cut short by a rank whose copies are all discarded
\* while higher ranks of it are still in play, and another color has cards played.
C17_Witness ==
    /\ \E c \in Colors :
          \E r \in env.fireworks[c] .. (NumSuits - 2) :
             /\ env.discard.counts[parts_id(c, r)] = starting_deck.counts[parts_id(c, r)]
             /\ env.discard.counts[parts_id(c, r + 1)] < starting_deck.counts[parts_id(c, r + 1)]
             /\ FutureOfColor(env.fireworks, env.discard, c) = r - env.fireworks[c]
    /\ \E c \in Colors : env.fireworks[c] > 0

\* C18: 75 * reward = 3 * score + (black_tokens - 1) * future, the score is in
\* [0,25] and the reward in [0,2].
C18_RewardBounds ==
    LET r == reward(env)
    IN /\ r.den = 75
       /\ r.num = 3 * Score(env) + (env.black_tokens - 1) * Future(env.fireworks, env.discard)
       /\ Score(env) \in 0 .. 25
       /\ r.num >= 0
       /\ r.num <= 2 * r.den

\* C18 witness: a strike was taken, cards were played and some can still be.
C18_Witness ==
    /\ env.black_tokens \in 2 .. 3
    /\ Score(env) > 0
    /\ Future(env.fireworks, env.discard) \in 1 .. 24

\* The copies of the identities below id.
Below(counts, id) == SumTo(counts, id - 1)

\* How many of the indices k, k + 1, .. below total select each identity, added
\* to acc.
RECURSIVE Tally(_, _, _)
Tally(coll, k, acc) ==
    IF k >= coll.total THEN acc
    ELSE LET card == pop(coll, k).card
         IN Tally(coll, k + 1, IF card \in Ids THEN [acc EXCEPT ![card] = @ + 1] ELSE acc)

\* What C19 says of pop on one collection.
PopUniformOn(coll) ==
    /\ \A k \in 0 .. (coll.total - 1) :
          LET p == pop(coll, k)
          IN /\ p.card \in Ids
             /\ Below(coll.counts, p.card) <= k
             /\ k < Below(coll.counts, p.card) + coll.counts[p.card]
             /\ p.coll.total = coll.total - 1
             /\ \A id \in Ids :
                   p.coll.counts[id] = coll.counts[id] - (IF id = p.card THEN 1 ELSE 0)
    /\ Tally(coll, 0, [id \in Ids |-> 0]) = coll.counts
    /\ card_is_none(pop(coll, 0).card) <=> coll.total = 0
    /\ coll.total = 0 => pop(coll, 0).coll = coll

\* C19: on the collections pop is called on, the deck of the env (draw_into) and
\* the hint-restricted copy of the deck (pop_match), pop with index k in [0,total)
\* removes exactly one copy of the identity whose run of copies holds k, so each
\* identity is selected by as many indices as it has copies and one with no copy
\* never; pop returns the none sentinel iff total = 0, leaving the collection
\* unchanged.
C19_PopUniform ==
    /\ det.pc = "idle" => PopUniformOn(env.deck)
    /\ det.last.called => PopUniformOn(restrict(det.last.before, det.last.hint))

\* C19 witness: pop drew from a restricted deck in which some identities have no
\* copy and others have several, in a game that has drawn cards from its deck.
C19_Witness ==
    /\ det.last.called
    /\ det.last.some
    /\ drawn < HandSize
    /\ \E id \in Ids : restrict(det.last.before, det.last.hint).counts[id] = 0
    /\ \E id \in Ids : restrict(det.last.before, det.last.hint).counts[id] >= 2

RECURSIVE SeqSum(_)
SeqSum(seq) == IF seq = <<>> THEN 0 ELSE Head(seq) + SeqSum(Tail(seq))

\* The rollouts of the call that started with action a, and the sum of their
\* weighted rewards.
RolloutsOf(a) == {n \in 1 .. Len(pol.log) : pol.log[n].action = a}

TotalOf(a) ==
    SeqSum([n \in 1 .. Len(pol.log) |->
               IF pol.log[n].action = a THEN pol.log[n].reward ELSE 0])

\* C16: with num_rollouts >= 1 the policy does not panic, and the action it
\* returns started a rollout, has a total of weighted rewards no other first
\* action exceeds and, among those with that total, was seen first; the visit
\* counts add up to num_rollouts.
C16_PolicyArgmax ==
    /\ pol.pc = "panic" => pol.num_rollouts = 0
    /\ pol.pc = "returned" =>
          LET seen == {pol.log[n].action : n \in 1 .. Len(pol.log)}
          IN /\ pol.num_rollouts >= 1
             /\ pol.result \in seen
             /\ \A a \in seen : TotalOf(a) <= TotalOf(pol.result)
             /\ \A a \in seen :
                   TotalOf(a) = TotalOf(pol.result) => Min(RolloutsOf(pol.result)) <= Min(RolloutsOf(a))
             /\ SeqSum(pol.visits) = pol.num_rollouts
             /\ \A n \in 1 .. Len(pol.actions) :
                   pol.visits[n] = Cardinality(RolloutsOf(pol.actions[n]))

\* C16 witness: three rollouts with three first actions, the two best of equal
\* total, and the one returned is not the action of the first rollout.
C16_Witness ==
    /\ pol.pc = "returned"
    /\ pol.num_rollouts = 3
    /\ Len(pol.actions) = 3
    /\ pol.result # pol.log[1].action
    /\ \E a \in {pol.log[n].action : n \in 1 .. 3} :
          a # pol.result /\ TotalOf(a) = TotalOf(pol.result)

\* C21: in both hands a slot holds the none sentinel iff its hint is none, and a
\* none hint is the none hint in both masks; so the hints that are not none, which
\* is_over counts, are as many as the cards held.
C21_SlotEmptiness ==
    /\ \A i \in Slots :
          /\ env.player_hand[i] \in Ids \cup {NoneId}
          /\ env.opponent_hand[i] \in Ids \cup {NoneId}
          /\ card_is_none(env.player_hand[i]) <=> hint_is_none(env.player_hints[i])
          /\ card_is_none(env.opponent_hand[i]) <=> hint_is_none(env.opponent_hints[i])
          /\ hint_is_none(env.player_hints[i]) <=> env.player_hints[i] = hint_none
          /\ hint_is_none(env.opponent_hints[i]) <=> env.opponent_hints[i] = hint_none
    /\ NumSome(env.player_hints) = Cardinality(Live(env.player_hand))
    /\ NumSome(env.opponent_hints) = Cardinality(Live(env.opponent_hand))

\* C21 witness: the game is in its last round: the hand that just drew from the
\* empty deck has an empty slot, the other hand holds five cards, one of them with
\* a hint that names a color or a rank.
C21_Witness ==
    /\ ~is_over(env)
    /\ hist.action.type \in {"Play", "Discard"}
    /\ hist.before.deck.total = 0
    /\ card_is_none(env.opponent_hand[hist.slot])
    /\ Cardinality(Live(env.player_hand)) = HandSize
    /\ \E j \in Slots : env.player_hints[j] \notin {hint_empty, hint_none}

\* The cached total of a collection is the sum of its counts.
Summed(coll) == coll.total = SumTo(coll.counts, NumIds - 1)

\* No identity has more copies than the starting deck.
Within(coll) == \A id \in Ids : coll.counts[id] \in 0 .. starting_deck.counts[id]

\* C22: total is the sum of the counts in every collection the program builds:
\* the deck and the discard of the env (add, pop), the deck of
\* sample_opponent_info after subtract, remove_fireworks and remove_hand and
\* through the pop_match, remove and add calls of determinize_hints, the
\* hint-restricted copy pop_match draws from, and the deck Env::new computes; and
\* the deck and the discard of the env hold no more copies of an identity than the
\* starting deck.
C22_CacheInvariant ==
    /\ Summed(starting_deck) /\ Summed(collection_empty)
    /\ Summed(env.deck) /\ Summed(env.discard)
    /\ Within(env.deck) /\ Within(env.discard)
    /\ LET a == subtract(starting_deck, env.discard)
           b == remove_fireworks(a, env.fireworks)
           c == remove_hand(b, env.opponent_hand)
       IN Summed(a) /\ Summed(b) /\ Summed(c)
    /\ det.pc # "idle" => Summed(det.deck) /\ Within(det.deck)
    /\ det.last.called =>
          /\ Summed(det.last.before)
          /\ Summed(det.last.after)
          /\ Summed(restrict(det.last.before, det.last.hint))
          /\ Summed(pop(restrict(det.last.before, det.last.hint), 0).coll)
    /\ det.pc = "done" => Summed(det.env.deck) /\ Within(det.env.deck)

\* C22 witness: cards were discarded and played, and determinize_hints placed a
\* card after a restart had given cards back to its deck.
C22_Witness ==
    /\ env.discard.total > 0
    /\ Score(env) > 0
    /\ det.restarted
    /\ det.last.called
    /\ det.last.some
    /\ det.deck.total < sample_deck(public_info(env), DetPrivate).total

\* C23: a Play of the card of color c and rank r in the chosen slot: when the
\* stack of c stands at r - 1 it rises to r, the discard and black_tokens are as
\* before, and blue_tokens becomes min(8, blue_tokens + 1) for r = 5 and is as
\* before otherwise; when it does not, the card is added to the discard,
\* black_tokens falls by exactly 1, and fireworks and blue_tokens are as before.
C23_PlayOutcome ==
    hist.action.type = "Play" =>
       LET b == hist.before
           card == b.player_hand[hist.slot]
           c == color_id(card)
           r == suit_id(card) + 1
       IN /\ card \in Ids
          /\ IF b.fireworks[c] = r - 1
             THEN /\ env.fireworks = [b.fireworks EXCEPT ![c] = r]
                  /\ env.discard = b.discard
                  /\ env.black_tokens = b.black_tokens
                  /\ env.blue_tokens = IF r = 5 THEN Min({8, b.blue_tokens + 1})
                                       ELSE b.blue_tokens
             ELSE /\ env.discard.counts = [b.discard.counts EXCEPT ![card] = @ + 1]
                  /\ env.discard.total = b.discard.total + 1
                  /\ env.black_tokens = b.black_tokens - 1
                  /\ env.fireworks = b.fireworks
                  /\ env.blue_tokens = b.blue_tokens

\* A Play of a rank-5 card the fireworks accepted was the last step.
PlayedFive ==
    /\ hist.action.type = "Play"
    /\ suit_id(hist.before.player_hand[hist.slot]) = 4
    /\ accepts(hist.before.fireworks, hist.before.player_hand[hist.slot])

\* C23 witness: a rank-5 card was played with blue_tokens at 8.
C23_Witness == PlayedFive /\ hist.before.blue_tokens = 8

\* C24: a Discard adds the card of the chosen slot to the discard (its count and
\* the total grow by 1), sets blue_tokens to min(8, blue_tokens + 1), and leaves
\* fireworks and black_tokens as they were.
C24_DiscardOutcome ==
    hist.action.type = "Discard" =>
       LET b == hist.before
           card == b.player_hand[hist.slot]
       IN /\ card \in Ids
          /\ env.discard.counts = [b.discard.counts EXCEPT ![card] = @ + 1]
          /\ env.discard.total = b.discard.total + 1
          /\ env.blue_tokens = Min({8, b.blue_tokens + 1})
          /\ env.fireworks = b.fireworks
          /\ env.black_tokens = b.black_tokens

\* C24 witness: a Discard took blue_tokens from 7 to the cap, of a card that
\* already had a copy in the discard.
C24_Witness ==
    /\ hist.action.type = "Discard"
    /\ hist.before.blue_tokens = 7
    /\ hist.before.discard.counts[hist.before.player_hand[hist.slot]] > 0

\* The slots of a hand whose hint is h.
SlotsWith(hints, h) == {i \in Slots : hints[i] = h}

\* C25: a Play or Discard with hint h acts on one slot of the acting hand, whose
\* hint before the step is h, and each slot with that hint is a choice open to
\* the step.  After the step (the seats swapped) the slot holds a card taken from
\* the deck, with the empty hint, when the deck held a card, and is the sentinel
\* with the none hint, last_round set, when it held none; the other four slots of
\* the acting hand and the cards and hints of the other hand are as before.
C25_SlotAndDraw ==
    /\ \A i \in Slots :
          card_is_some(env.player_hand[i]) =>
             /\ i \in SlotChoices(env, Play(env.player_hints[i]))
             /\ SlotChoices(env, Play(env.player_hints[i]))
                   = SlotsWith(env.player_hints, env.player_hints[i])
             /\ SlotChoices(env, Discard(env.player_hints[i]))
                   = SlotsWith(env.player_hints, env.player_hints[i])
    /\ hist.action.type \in {"Play", "Discard"} =>
          LET b == hist.before
              i == hist.slot
              card == env.opponent_hand[i]
          IN /\ i \in Slots
             /\ b.player_hints[i] = hist.action.hint
             /\ \A j \in Slots \ {i} :
                   /\ env.opponent_hand[j] = b.player_hand[j]
                   /\ env.opponent_hints[j] = b.player_hints[j]
             /\ env.player_hand = b.opponent_hand
             /\ env.player_hints = b.opponent_hints
             /\ IF b.deck.total > 0
                THEN /\ card \in Ids
                     /\ b.deck.counts[card] > 0
                     /\ env.deck.counts = [b.deck.counts EXCEPT ![card] = @ - 1]
                     /\ env.deck.total = b.deck.total - 1
                     /\ env.opponent_hints[i] = hint_empty
                     /\ env.last_round = b.last_round
                ELSE /\ card = NoneId
                     /\ env.opponent_hints[i] = hint_none
                     /\ env.last_round
                     /\ env.deck = b.deck

\* C25 witness: of several slots with the hint of the action the step chose one
\* that is not the first, a slot with a narrowed hint among the others, and drew a
\* card for it from the deck.
C25_Witness ==
    /\ hist.action.type \in {"Play", "Discard"}
    /\ hist.slot # Min(SlotsWith(hist.before.player_hints, hist.action.hint))
    /\ \E j \in Slots : hist.before.player_hints[j] \notin {hist.action.hint, hint_none}
    /\ hist.before.deck.total > 0
    /\ card_is_some(env.opponent_hand[hist.slot])

\* The bits of a 6-bit mask.
Bits(mask) == {x \in 0 .. 5 : BitSet(mask, x)}

\* What a hint step leaves alone: the acting player's hints, the cards of both
\* hands, deck, discard, fireworks, black_tokens and last_round; the seats are
\* swapped and the last-round counter moves on.
HintFrame(b, e) ==
    /\ e.opponent_hints = b.player_hints
    /\ e.opponent_hand = b.player_hand
    /\ e.player_hand = b.opponent_hand
    /\ e.deck = b.deck
    /\ e.discard = b.discard
    /\ e.fireworks = b.fireworks
    /\ e.black_tokens = b.black_tokens
    /\ e.last_round = b.last_round
    /\ e.last_round_turns_taken = b.last_round_turns_taken + (IF b.last_round THEN 1 ELSE 0)
    /\ e.blue_tokens = b.blue_tokens - 1

\* C26: ColorHint(c) sets the color mask of each live slot of the other hand to
\* the single bit c when the card has color c and clears bit c of it otherwise,
\* and takes one blue token; the rank masks of those slots, the hints of empty
\* slots and everything else but the seats and the last-round counter are as
\* before.  SuitHint(r) does the same on the rank masks.
C26_HintEffect ==
    /\ hist.action.type = "ColorHint" =>
          LET b == hist.before
              c == hist.action.color
          IN /\ HintFrame(b, env)
             /\ \A i \in Slots :
                   IF card_is_some(b.opponent_hand[i])
                   THEN /\ Bits(env.player_hints[i].color) =
                              IF color_id(b.opponent_hand[i]) = c THEN {c}
                              ELSE Bits(b.opponent_hints[i].color) \ {c}
                        /\ env.player_hints[i].suit = b.opponent_hints[i].suit
                   ELSE env.player_hints[i] = b.opponent_hints[i]
    /\ hist.action.type = "SuitHint" =>
          LET b == hist.before
              r == hist.action.suit
          IN /\ HintFrame(b, env)
             /\ \A i \in Slots :
                   IF card_is_some(b.opponent_hand[i])
                   THEN /\ Bits(env.player_hints[i].suit) =
                              IF suit_id(b.opponent_hand[i]) = r THEN {r}
                              ELSE Bits(b.opponent_hints[i].suit) \ {r}
                        /\ env.player_hints[i].color = b.opponent_hints[i].color
                   ELSE env.player_hints[i] = b.opponent_hints[i]

\* C26 witness: in the last round a color hint was given to a hand with an empty
\* slot and a card of the color whose mask still had other bits.
C26_Witness ==
    /\ hist.action.type = "ColorHint"
    /\ hist.before.last_round
    /\ \E i \in Slots : card_is_none(hist.before.opponent_hand[i])
    /\ \E i \in Slots :
          /\ card_is_some(hist.before.opponent_hand[i])
          /\ color_id(hist.before.opponent_hand[i]) = hist.action.color
          /\ hist.before.opponent_hints[i].color # Pow2(hist.action.color)

\* The deal of every reference line.
DealOf == [d \in Drivers |-> random(DealDraws(d))]

\* The two hands of the deal: 0 the hand that acts first, 1 the other.
Dealt(p) == IF p = 0 THEN DealOf[driver].player_hand ELSE DealOf[driver].opponent_hand

\* C27: a step ends with the hands and their hints exchanged and the last-round
\* counter one higher iff last_round is set by then: the player hand and hints
\* are the previous opponent's, the hints narrowed if the step was a hint, and the
\* opponent hand and hints are the previous actor's, but for the slot a Play or
\* Discard drew into.  After k steps from the deal the hand that acts is the hand
\* dealt first iff k is even: every slot of the acting hand that was never drawn
\* into on a turn of the parity of k holds the card dealt to the hand of that
\* parity, and likewise for the other hand.
C27_SeatSwap ==
    /\ hist.action.type # "none" =>
          LET b == hist.before
          IN /\ env.last_round_turns_taken =
                   b.last_round_turns_taken + (IF env.last_round THEN 1 ELSE 0)
             /\ env.player_hand = b.opponent_hand
             /\ IF IsHint(hist.action)
                THEN /\ \A i \in Slots :
                           /\ Bits(env.player_hints[i].color) \subseteq Bits(b.opponent_hints[i].color)
                           /\ Bits(env.player_hints[i].suit) \subseteq Bits(b.opponent_hints[i].suit)
                     /\ env.opponent_hand = b.player_hand
                     /\ env.opponent_hints = b.player_hints
                ELSE /\ env.player_hints = b.opponent_hints
                     /\ \A i \in Slots \ {hist.slot} :
                           /\ env.opponent_hand[i] = b.player_hand[i]
                           /\ env.opponent_hints[i] = b.player_hints[i]
    /\ \A i \in Slots :
          /\ <<turn % 2, i>> \notin hist.redrawn => env.player_hand[i] = Dealt(turn % 2)[i]
          /\ <<1 - (turn % 2), i>> \notin hist.redrawn =>
                env.opponent_hand[i] = Dealt(1 - (turn % 2))[i]

\* C27 witness: after an odd number of steps, slots of both hands drawn into and
\* the last round begun, the acting hand still holds in a slot the card dealt to
\* the second hand, which is not the card dealt to that slot of the first.
C27_Witness ==
    /\ turn % 2 = 1
    /\ env.last_round
    /\ env.last_round_turns_taken = 1
    /\ \E i, j \in Slots : <<0, i>> \in hist.redrawn /\ <<1, j>> \in hist.redrawn
    /\ \E i \in Slots :
          /\ <<1, i>> \notin hist.redrawn
          /\ Dealt(0)[i] # Dealt(1)[i]
          /\ env.player_hand[i] = Dealt(1)[i]

\* The deck sample_opponent_info gives to determinize_hints in the call under way.
GivenDeck == sample_deck(public_info(env), DetPrivate)

\* The product of the weights of one pass that sets these cards, from slot i on
\* with this deck: for each slot with a hint the copies of its card in the deck
\* over the copies in the deck that match the hint.
RECURSIVE PassWeight(_, _, _, _)
PassWeight(deck, cards, hints, i) ==
    IF i = HandSize THEN [num |-> 1, den |-> 1]
    ELSE IF hint_is_none(hints[i]) THEN PassWeight(deck, cards, hints, i + 1)
    ELSE LET rest == PassWeight(coll_remove(deck, cards[i]), cards, hints, i + 1)
         IN [num |-> deck.counts[cards[i]] * rest.num,
             den |-> MatchTotal(deck, hints[i]) * rest.den]

\* C28: all through determinize_hints the deck and the cards set so far add up to
\* the deck given; after a failed pop_match no card is set, the deck is the deck
\* given, the probability is 1 and the walk stands at the first hint that is not
\* none; on return a slot is empty iff its hint is none, the deck is the deck
\* given less the cards returned, and the probability is the product of the
\* weights of the pass that set the cards returned.
C28_RestartKeepsPool ==
    /\ det.pc \in {"walk", "done"} =>
          /\ [id \in Ids |-> det.deck.counts[id] + InHand(det.cards, id)] = GivenDeck.counts
          /\ det.deck.total + Cardinality(Live(det.cards)) = GivenDeck.total
          /\ \A i \in Slots : hint_is_none(DetHints[i]) => card_is_none(det.cards[i])
    /\ (det.pc = "walk" /\ det.last.called /\ ~det.last.some) =>
          /\ det.cards = no_cards
          /\ det.deck = GivenDeck
          /\ det.num = 1
          /\ det.den = 1
          /\ hint_is_some(DetHints[det.i])
          /\ \A j \in 0 .. (det.i - 1) : hint_is_none(DetHints[j])
    /\ det.pc = "done" =>
          /\ \A i \in Slots : card_is_none(det.cards[i]) <=> hint_is_none(DetHints[i])
          /\ det.deck = remove_hand(GivenDeck, det.cards)
          /\ [num |-> det.num, den |-> det.den] = PassWeight(GivenDeck, det.cards, DetHints, 0)

\* C28 witness: determinize_hints, called as the policy calls it, returned after
\* a restart that gave cards back, with a probability below 1.
C28_Witness ==
    /\ det.pc = "done"
    /\ det.perspective
    /\ det.restarted
    /\ det.num < det.den
    /\ det.cards # env.player_hand

\* C29: an env returned by determinize(env.public_info(), env.private_info(true))
\* for an env that is not over has the actions of env, the same Vec in the same
\* order, so the first action of a rollout is an action of env.
C29_ActionsPublic ==
    /\ (det.pc = "done" /\ det.perspective) =>
          /\ ~is_over(env)
          /\ actions(det.env) = actions(env)
    /\ det.pc = "stepped" => Holds(actions(env), det.action)

\* C29 witness: a determinized env whose acting hand differs from the true one in
\* the color of a card, with hints and discards among its actions and two slots
\* sharing a hint.
C29_Witness ==
    /\ det.pc = "done"
    /\ det.perspective
    /\ \E i \in Slots : color_id(det.env.player_hand[i]) # color_id(env.player_hand[i])
    /\ env.blue_tokens \in 1 .. 7
    /\ \E i, j \in Slots : i # j /\ env.player_hints[i] = env.player_hints[j]
    /\ \E i \in Slots : env.player_hints[i] # hint_empty

\* The global invariants of an env: the cards of the five places are the starting
\* deck, identity by identity with no count wrapped, the tokens are in range, and
\* every slot that holds a card has a hint that matches it.
WellFormed(e) ==
    /\ [id \in Ids |-> e.deck.counts[id] + e.discard.counts[id] + FireworkCopies(e.fireworks, id)
                       + InHand(e.player_hand, id) + InHand(e.opponent_hand, id)]
          = starting_deck.counts
    /\ Within(e.deck) /\ Within(e.discard)
    /\ Summed(e.deck) /\ Summed(e.discard)
    /\ e.discard.total + e.deck.total + Cardinality(Live(e.player_hand))
       + Cardinality(Live(e.opponent_hand)) + SumTo(e.fireworks, NumColors - 1) = 50
    /\ e.blue_tokens \in 0 .. 8
    /\ e.black_tokens \in 1 .. 4
    /\ \A i \in Slots :
          /\ card_is_some(e.player_hand[i]) =>
                e.player_hand[i] \in Ids /\ hint_matches_card(e.player_hints[i], e.player_hand[i])
          /\ card_is_some(e.opponent_hand[i]) =>
                e.opponent_hand[i] \in Ids
                /\ hint_matches_card(e.opponent_hints[i], e.opponent_hand[i])
          /\ card_is_none(e.player_hand[i]) <=> hint_is_none(e.player_hints[i])
          /\ card_is_none(e.opponent_hand[i]) <=> hint_is_none(e.opponent_hints[i])

\* C30: an env returned by determinize(env.public_info(), env.private_info(true))
\* for an env that is not over is built by Env::new without a count wrapping
\* below zero, its deck is the starting deck less discard, fireworks and both
\* hands and has the total of the deck of env, its hints match its cards, and
\* is_over() and reward() are those of env; the global invariants hold in it and
\* in every state of the rollout from it, which never finds actions() empty.
C30_DeterminizedWellFormed ==
    det.perspective =>
       /\ det.pc # "panic"
       /\ det.pc = "done" =>
             LET a == subtract(starting_deck, env.discard)
                 b == remove_fireworks(a, env.fireworks)
                 c == remove_hand(b, env.opponent_hand)
             IN /\ Within(a) /\ Within(b) /\ Within(c)
                /\ det.env.deck = remove_hand(c, det.cards)
                /\ det.env.deck.total = env.deck.total
                /\ is_over(det.env) = is_over(env)
                /\ reward(det.env) = reward(env)
       /\ det.pc \in {"done", "rolling"} => WellFormed(det.env)

\* C30 witness: a rollout from a determinized env whose acting hand differed from
\* the true one has run to the end of its game, with cards drawn, played and
\* discarded on the way.
C30_Witness ==
    /\ det.pc = "rolling"
    /\ det.perspective
    /\ det.cards # env.player_hand
    /\ is_over(det.env)
    /\ det.env.deck.total < env.deck.total
    /\ SumTo(det.env.fireworks, NumColors - 1) > SumTo(env.fireworks, NumColors - 1)
    /\ det.env.discard.total > env.discard.total

\* A draw with which pop_match returns identity id from this deck under this
\* hint: the first index of the run of id in the hint-restricted copy.
DrawFor(deck, hint, id) == Below(restrict(deck, hint).counts, id)

\* Whether draws exist with which determinize_hints, at slot i with this deck,
\* sets the cards of this hand in every slot from i on and leaves the loop.
RECURSIVE Returnable(_, _, _, _)
Returnable(deck, hints, hand, i) ==
    IF i >= HandSize THEN i = HandSize
    ELSE LET r == pop_match(deck, hints[i], DrawFor(deck, hints[i], hand[i]))
         IN /\ r.some
            /\ r.card = hand[i]
            /\ Returnable(r.coll, hints, hand, next_card(hints, i))

\* The hands that differ from the true hand in one slot, match the hints and can
\* be drawn from the deck.
OneOff(deck, hints, hand) ==
    {[hand EXCEPT ![i] = id] :
        i \in {j \in Slots : card_is_some(hand[j])},
        id \in {x \in Ids : deck.counts[x] > 0}}

Consistent(deck, hints, hand) ==
    /\ \A i \in Slots : card_is_some(hand[i]) => hint_matches_card(hints[i], hand[i])
    /\ \A id \in Ids : InHand(hand, id) <= deck.counts[id]

\* C31: for an env that is not over, the deck sample_opponent_info builds from
\* the public information and the visible hand lets determinize_hints return the
\* true hand of the acting player, and every hand that differs from it in one slot,
\* matches the hints and can be drawn from that deck; and at every slot of the
\* walk every identity the deck holds that matches the hint is returned by
\* pop_match for some draw, so that no consistent hand is left out.
C31_SupportComplete ==
    /\ (det.pc = "idle" /\ ~is_over(env)) =>
          LET given == sample_deck(public_info(env), private_info(env, TRUE))
              hints == env.player_hints
              first == first_card(hints, 0)
          IN /\ Consistent(given, hints, env.player_hand)
             /\ Returnable(given, hints, env.player_hand, first)
             /\ \A hand \in OneOff(given, hints, env.player_hand) :
                   Consistent(given, hints, hand) => Returnable(given, hints, hand, first)
    /\ (det.pc = "walk" /\ det.perspective /\ det.i < HandSize) =>
          \A id \in Ids :
             (det.deck.counts[id] > 0 /\ hint_matches_card(DetHints[det.i], id)) =>
                LET r == pop_match(det.deck, DetHints[det.i],
                                   DrawFor(det.deck, DetHints[det.i], id))
                IN r.some /\ r.card = id

\* C31 witness: an env that is not over whose acting hand has hints that name a
\* color or a rank, with cards discarded and played, and with a hand other than
\* the true one that matches the hints and can be drawn.
C31_Witness ==
    /\ det.pc = "idle"
    /\ ~is_over(env)
    /\ env.discard.total > 0
    /\ Score(env) > 0
    /\ \E i \in Slots : env.player_hints[i] \notin {hint_empty, hint_none}
    /\ \E hand \in OneOff(sample_deck(public_info(env), private_info(env, TRUE)),
                          env.player_hints, env.player_hand) :
          /\ hand # env.player_hand
          /\ Consistent(sample_deck(public_info(env), private_info(env, TRUE)),
                        env.player_hints, hand)

\* Whether the Vec actions() returns for this env holds a Play.
OffersPlay(e) == LET acts == actions(e) IN \E n \in 1..Len(acts) : acts[n].type = "Play"

AlmostFull(e) ==
    /\ Cardinality(Live(e.player_hand)) >= HandSize - 1
    /\ Cardinality(Live(e.opponent_hand)) >= HandSize - 1
    /\ (Live(e.player_hand) # Slots \/ Live(e.opponent_hand) # Slots) => e.last_round
    /\ OffersPlay(e)
    /\ first_card(e.player_hints, 0) <= 1

\* C32: in every env reached by legal play, and in every env of a rollout of a
\* determinized env, each hand has at least four live slots, a hand has an empty
\* slot only when last_round is set, actions() offers a Play, and the first loop
\* of determinize_hints stops at index 0 or 1, so that it never reads hints[5]
\* and the walk never leaves the five slots.
C32_HandsAlmostFull ==
    /\ AlmostFull(env)
    /\ det.pc \in {"done", "rolling"} => AlmostFull(det.env)
    /\ det.pc # "panic"
    /\ det.pc = "walk" => det.i <= HandSize

\* C32 witness: a rollout of a determinized env that ended in the final round
\* with an empty slot in each hand, slot 0 being the empty one of the acting hand.
C32_Witness ==
    /\ det.pc = "rolling"
    /\ is_over(det.env)
    /\ det.env.last_round
    /\ Cardinality(Live(det.env.player_hand)) = HandSize - 1
    /\ Cardinality(Live(det.env.opponent_hand)) = HandSize - 1
    /\ first_card(det.env.player_hints, 0) = 1

\* The score still achievable: the cards played plus possible_future_rewards.
Achievable(e) == Score(e) + possible_future_rewards(e.fireworks, e.discard)

\* C33: in every env the cards played plus possible_future_rewards is at most
\* 25; across every step it does not rise: it stays equal on a hint and on a
\* Play the fireworks accept, and stays or falls on a Discard and on a Play they
\* reject; and reward() is at most 1.
C33_AchievableMonotone ==
    /\ Achievable(env) <= NumIds
    /\ LET r == reward(env) IN r.num <= r.den
    /\ hist.action.type # "none" =>
          LET was == Achievable(hist.before)
              now == Achievable(env)
          IN /\ now <= was
             /\ hist.action.type \in {"ColorHint", "SuitHint"} => now = was
             /\ (hist.action.type = "Play" /\ Score(env) = Score(hist.before) + 1) => now = was
             /\ (hist.action.type = "Play" /\ Score(env) # Score(hist.before) + 1) =>
                   /\ Score(env) = Score(hist.before)
                   /\ env.discard.total = hist.before.discard.total + 1

\* C33 witness: after cards were played and the sum had fallen before, a Play the
\* fireworks rejected took the last copy of a card they could still have
\* reached, and the sum fell again.
C33_Witness ==
    /\ hist.action.type = "Play"
    /\ Score(env) = Score(hist.before)
    /\ Score(env) > 0
    /\ Achievable(env) < Achievable(hist.before)
    /\ Achievable(env) < NumIds - 1
====
